---------------------------- MODULE Spec2Model ----------------------------
(***************************************************************************)
(* A model of the Windows platform layer of PhysicsFS                      *)
(* (src/platform/windows.c): the path canonicalizer                        *)
(* __PHYSFS_platformRealPath and the native file-handle operations.        *)
(*                                                                         *)
(* Strings are sequences of one-character strings; C indices are 0-based,  *)
(* so byte i of a buffer mem is mem[i+1].                                  *)
(***************************************************************************)
EXTENDS Integers, Sequences, FiniteSets, TLC

VARIABLES
    \* ---- __PHYSFS_platformRealPath ----
    path,       \* the argument: the characters before its terminator
    hostCwd,    \* what GetCurrentDirectory() reports
    fill,       \* the content of the freshly malloc'ed (uninitialized) block
    retval,     \* the bytes of the MAX_PATH block written so far (a prefix)
    p,          \* the scan pointer, an index into retval
    pc,         \* "start" | "scan" | "done" | "failed" | "ub"
    err,        \* the error set by BAIL_MACRO, or "none"
    built,      \* the string in retval when the dot pass starts (line 607)
    result,     \* the returned string (NULL: <<"NULL">> is never a path)
    round,      \* 1: first call; 2: the call on the first call's result
    first,      \* the result of the first call, kept for the second
    \* ---- file handles ----
    fileLen,    \* the length of the file on disk
    openDescs,  \* the native descriptors the host has open
    filePos,    \* the host's file pointer of each open descriptor
    recs,       \* the allocated win32file records: id -> [handle, readonly]
    held,       \* the records returned to the caller and not released
    lastError,  \* the host's GetLastError() value
    last,       \* the last platform call: its name, arguments and return
    \* ---- __PHYSFS_platformDelete ----
    attrs,      \* the host's file system: name -> attribute bits
    lastDel,    \* the last delete or is_directory call and what it did
    \* ---- library lifecycle ----
    libs,       \* libKernel32, libUserEnv, libAdvApi32: TRUE when not NULL
    loads,      \* the host's reference count of each module
    ptr,        \* the optional entry points: TRUE when the pointer is not NULL
    userDir,    \* the cached user directory: NULLP or a heap block
    heap,       \* the allocated strings: block -> content
    libPc,      \* "run" | "crashed"
    lastLib,    \* the last lifecycle call, its return and the calls it made
    \* ---- FileTimeToPhysfsTime ----
    ft,         \* the FILETIME argument, in ticks
    tzi,        \* the host's TIME_ZONE_INFORMATION
    now,        \* the host's clock, in ticks
    hasTzApi,   \* SystemTimeToTzSpecificLocalTime is supported
    timeRet     \* what FileTimeToPhysfsTime returned on each path

pathVars == <<path, hostCwd, fill, retval, p, pc, err, built, result, round, first>>
fileVars == <<fileLen, openDescs, filePos, recs, held, lastError, last>>
delVars  == <<attrs, lastDel>>
libVars  == <<libs, loads, ptr, userDir, heap, libPc, lastLib>>
timeVars == <<ft, tzi, now, hasTzApi, timeRet>>
vars == <<pathVars, fileVars, delVars, libVars, timeVars>>

notPathVars == <<fileVars, delVars, libVars, timeVars>>
notFileVars == <<pathVars, delVars, libVars, timeVars>>
notDelVars  == <<pathVars, fileVars, libVars, timeVars>>
notLibVars  == <<pathVars, delVars, timeVars>>
notTimeVars == <<pathVars, fileVars, delVars, libVars>>

---------------------------------------------------------------------------
(* Characters and C strings *)

NUL == "NUL"
BS  == "\\"
NULLP == -1

\* windows.h; the size of the block __PHYSFS_platformRealPath allocates.
MAX_PATH == 260

\* The length of the enumerated input paths.
MaxPathLen == 4

Alphabet == {BS, ".", ":", "C", "D", "a"}

RECURSIVE StringsUpTo(_)
StringsUpTo(n) ==
    IF n = 0 THEN {<<>>}
    ELSE LET shorter == StringsUpTo(n - 1)
         IN  shorter \cup {Append(s, c) : s \in {t \in shorter : Len(t) = n - 1}, c \in Alphabet}

\* What a freshly allocated block may hold: the allocator promises nothing.
Fills == {"zero", "junk", "mixed", "words"}

JunkByte(f, i) ==
    CASE f = "zero"  -> NUL
      [] f = "junk"  -> "x"
      [] f = "mixed" -> IF i % 2 = 0 THEN "x" ELSE NUL
      [] f = "words" -> IF i % 8 = 7 THEN NUL ELSE "x"

\* Byte i of the block: written, or still what the allocator left there.
Byte(mem, f, i) == IF i < Len(mem) THEN mem[i + 1] ELSE JunkByte(f, i)

Min(S) == CHOOSE x \in S : \A y \in S : x <= y
Max(S) == CHOOSE x \in S : \A y \in S : x >= y

\* strlen(mem + i); -1 when the scan leaves the block without a terminator.
strlen(mem, f, i) ==
    LET written == {k \in i..(Len(mem) - 1) : mem[k + 1] = NUL}
        beyond  == {k \in i..(MAX_PATH - 1) : Byte(mem, f, k) = NUL}
    IN  IF written # {} THEN Min(written) - i
        ELSE IF beyond # {} THEN Min(beyond) - i
        ELSE -1

\* strstr(mem + i, "\\."): the index of the first separator + '.' before the
\* terminator, or NULLP.
strstr(mem, f, i) ==
    LET n == strlen(mem, f, i)
        hits == {k \in i..(i + n - 1) : Byte(mem, f, k) = BS /\ Byte(mem, f, k + 1) = "."}
    IN  IF hits = {} THEN NULLP ELSE Min(hits)

\* memmove(mem + dst, mem + src, n)
memmove(mem, f, dst, src, n) ==
    LET hw == IF dst + n > Len(mem) THEN dst + n ELSE Len(mem)
    IN  [k \in 1..hw |->
            IF dst <= k - 1 /\ k - 1 < dst + n
            THEN Byte(mem, f, src + (k - 1 - dst))
            ELSE Byte(mem, f, k - 1)]

\* mem[i] = c
Poke(mem, i, c) == [mem EXCEPT ![i + 1] = c]

\* The C string at the start of the block.
CStr(mem, f) == SubSeq(mem, 1, strlen(mem, f, 0))

\* path[i] of a C string given by its characters: the terminator follows them.
PathAt(s, i) == IF i < Len(s) THEN s[i + 1] ELSE NUL

\* path + i
PathFrom(s, i) == SubSeq(s, i + 1, Len(s))

---------------------------------------------------------------------------
(* __PHYSFS_platformCurrentDir and the first pass of __PHYSFS_platformRealPath *)

__PHYSFS_platformCurrentDir(dir) ==
    IF dir[Len(dir)] # BS THEN dir \o <<BS>> ELSE dir

\* BuildRetval with line 574 copying from path + 1: the ':' is spliced in too
BuildRetval_KeepColon(s, currentDir) ==
    IF PathAt(s, 0) = BS /\ PathAt(s, 1) = BS
    THEN s
    ELSE IF PathAt(s, 1) = ":"
    THEN IF PathAt(s, 2) = BS
         THEN s
         ELSE IF PathAt(s, 0) = currentDir[1]
              THEN currentDir \o PathFrom(s, 1)
              ELSE <<PathAt(s, 0), ":", BS>> \o PathFrom(s, 2)
    ELSE IF PathAt(s, 0) = BS
         THEN <<currentDir[1], ":">> \o s
         ELSE currentDir \o s

BuildRetval(s, currentDir) ==
    IF PathAt(s, 0) = BS /\ PathAt(s, 1) = BS
    THEN s
    ELSE IF PathAt(s, 1) = ":"
    THEN IF PathAt(s, 2) = BS
         THEN s
         ELSE IF PathAt(s, 0) = currentDir[1]
              THEN currentDir \o PathFrom(s, 2)
              ELSE <<PathAt(s, 0), ":", BS>> \o PathFrom(s, 2)
    ELSE IF PathAt(s, 0) = BS
         THEN <<currentDir[1], ":">> \o s
         ELSE currentDir \o s

\* prevEntry after the loop of lines 621-623, started at i; -1 when the
\* pointer is moved before the block.
PrevEntry(mem, f, i) ==
    IF i < 0 THEN -1
    ELSE Max({0} \cup {k \in 0..i : Byte(mem, f, k) = BS})

---------------------------------------------------------------------------
(* The inputs of __PHYSFS_platformRealPath *)

NULLSTR == <<"NULL">>

RootCwd  == <<"C", ":", BS>>
DirCwd   == <<"C", ":", BS, "a">>
UsersCwd == <<"C", ":", BS, "U", "s", "e", "r", "s", BS, "x">>

PathDotRemoval   == <<"C", ":", BS, "a", BS, ".", BS, "b", BS, ".", ".", BS, "c">>
PathRootParent   == <<"C", ":", BS, ".", ".">>
PathParentLast   == <<"C", ":", BS, "a", BS, "b", BS, ".", ".">>
PathDotThenParent == <<"C", ":", BS, "a", BS, ".", BS, "b", BS, ".", ".">>
PathSameDrive    == <<"C", ":", "f", "o", "o">>
PathOtherDrive   == <<"D", ":", "f", "o", "o">>
PathOtherDriveDot == <<"D", ":", ".", BS, "a">>
PathSlash        == <<"a", "/", ".", BS, ".", BS, ".", BS, "b">>
PathUnc          == <<BS, BS, "s", BS, ".", BS, "a">>
\* cwd + LongPath fills the block exactly under RootCwd and overruns it under DirCwd
LongPath         == [i \in 1..(MAX_PATH - 4) |-> "a"]

ExamplePaths ==
    {PathDotRemoval, PathRootParent, PathParentLast, PathDotThenParent,
     PathSameDrive, PathOtherDrive, PathOtherDriveDot, PathSlash, PathUnc, LongPath}

InputPaths == StringsUpTo(MaxPathLen) \cup ExamplePaths

FileIdle ==
    /\ fileLen = 0
    /\ openDescs = {}
    /\ filePos = <<>>
    /\ recs = <<>>
    /\ held = {}
    /\ lastError = "NO_ERROR"
    /\ last = [op |-> "none", rec |-> NULLP, arg |-> 0, ret |-> 0]

\* No path has been deleted or queried.
DelIdle ==
    /\ attrs = <<>>
    /\ lastDel = [op |-> "none"]

\* The modules findApiSymbols loads, the entry points windows.c calls through
\* a pointer, and the module each is looked up in.
Modules == {"kernel32.dll", "userenv.dll", "advapi32.dll"}
Entries == {"GetUserProfileDirectoryW", "GetModuleFileNameW", "GetFileAttributesExA"}
ModuleOf(e) ==
    IF e = "GetUserProfileDirectoryW" THEN "userenv.dll" ELSE "kernel32.dll"

\* The library after a __PHYSFS_platformInit in which everything was found:
\* the process holds kernel32.dll itself, the library one reference to each.
LibReady ==
    /\ libs = [m \in Modules |-> TRUE]
    /\ loads = [m \in Modules |-> IF m = "kernel32.dll" THEN 2 ELSE 1]
    /\ ptr = [e \in Entries |-> TRUE]
    /\ heap = (1 :> "profile")
    /\ userDir = 1
    /\ libPc = "run"
    /\ lastLib = [op |-> "init", ret |-> 1, calls |-> {}, profile |-> TRUE]

\* No file time is being converted.
TimeIdle ==
    /\ ft = 0
    /\ tzi = [Bias |-> 0, StandardBias |-> 0, DaylightBias |-> 0, dst |-> FALSE]
    /\ now = 0
    /\ hasTzApi = TRUE
    /\ timeRet = [op |-> "none"]

PathInit ==
    /\ \/ path \in InputPaths /\ hostCwd \in {RootCwd, DirCwd}
       \/ path \in {PathSameDrive, PathOtherDrive} /\ hostCwd = UsersCwd
    /\ fill \in Fills
    /\ retval = <<>>
    /\ p = 0
    /\ pc = "start"
    /\ err = "none"
    /\ built = <<>>
    /\ result = NULLSTR
    /\ round = 1
    /\ first = NULLSTR
    /\ FileIdle
    /\ DelIdle
    /\ LibReady
    /\ TimeIdle

---------------------------------------------------------------------------
(* __PHYSFS_platformRealPath, lines 532-650 *)

\* lines 538-539: a NULL or empty path
RealPathInvalid ==
    /\ pc = "start"
    /\ path = <<>>
    /\ pc' = "failed"
    /\ err' = "ERR_INVALID_ARGUMENT"
    /\ UNCHANGED <<path, hostCwd, fill, retval, p, built, result, round, first>>
    /\ UNCHANGED notPathVars

\* lines 541-542 and 553-558: one of the two allocations fails
RealPathNoMemory ==
    /\ pc = "start"
    /\ path # <<>>
    /\ pc' = "failed"
    /\ err' = "ERR_OUT_OF_MEMORY"
    /\ UNCHANGED <<path, hostCwd, fill, retval, p, built, result, round, first>>
    /\ UNCHANGED notPathVars

\* lines 541-607: the block is allocated and the absolute path written to it
RealPathBuild ==
    /\ pc = "start"
    /\ path # <<>>
    /\ LET s == BuildRetval(path, __PHYSFS_platformCurrentDir(hostCwd))
       IN  IF Len(s) + 1 > MAX_PATH
           THEN \* strcpy/strcat write past the end of the block
                /\ pc' = "ub"
                /\ UNCHANGED <<retval, built>>
           ELSE /\ retval' = s \o <<NUL>>
                /\ built' = s
                /\ pc' = "scan"
    /\ p' = 0
    /\ UNCHANGED <<path, hostCwd, fill, err, result, round, first>>
    /\ UNCHANGED notPathVars

\* the pointer strstr returns at line 608
Found == strstr(retval, fill, p)

\* lines 611-612: a "." entry that does not end the string
DotEntryMiddle ==
    /\ pc = "scan"
    /\ Found # NULLP
    /\ Byte(retval, fill, Found + 2) = BS
    /\ retval' = memmove(retval, fill, Found + 1, Found + 3,
                         strlen(retval, fill, Found + 3) + 1)
    /\ p' = Found
    /\ UNCHANGED <<path, hostCwd, fill, pc, err, built, result, round, first>>
    /\ UNCHANGED notPathVars

\* lines 615-616: a "." entry that ends the string
DotEntryEnd ==
    /\ pc = "scan"
    /\ Found # NULLP
    /\ Byte(retval, fill, Found + 2) = NUL
    /\ retval' = Poke(retval, Found, NUL)
    /\ p' = Found
    /\ UNCHANGED <<path, hostCwd, fill, pc, err, built, result, round, first>>
    /\ UNCHANGED notPathVars

\* lines 619-626: a ".." entry with no earlier entry: made to look like "."
DotDotAtStart ==
    /\ pc = "scan"
    /\ Found # NULLP
    /\ Byte(retval, fill, Found + 2) = "."
    /\ LET prevEntry == PrevEntry(retval, fill, Found - 1)
       IN  /\ prevEntry <= 0
           /\ IF prevEntry < 0
              THEN \* prevEntry = p - 1 lies before the block
                   /\ pc' = "ub"
                   /\ UNCHANGED <<retval, p>>
              ELSE /\ retval' = memmove(retval, fill, Found + 1, Found + 2,
                                        strlen(retval, fill, Found + 2) + 1)
                   /\ p' = Found
                   /\ pc' = pc
    /\ UNCHANGED <<path, hostCwd, fill, err, built, result, round, first>>
    /\ UNCHANGED notPathVars

\* lines 629-630, 634: a ".." entry that does not end the string
DotDotMiddle ==
    /\ pc = "scan"
    /\ Found # NULLP
    /\ Byte(retval, fill, Found + 2) = "."
    /\ LET prevEntry == PrevEntry(retval, fill, Found - 1)
       IN  /\ prevEntry > 0
           /\ Byte(retval, fill, Found + 3) # NUL
           /\ retval' = Poke(retval, prevEntry, NUL)
           /\ p' = prevEntry
    /\ UNCHANGED <<path, hostCwd, fill, pc, err, built, result, round, first>>
    /\ UNCHANGED notPathVars

\* lines 631-634: a ".." entry that ends the string; p + 4 is the byte after
\* the string's terminator
DotDotEnd ==
    /\ pc = "scan"
    /\ Found # NULLP
    /\ Byte(retval, fill, Found + 2) = "."
    /\ LET prevEntry == PrevEntry(retval, fill, Found - 1)
           n == strlen(retval, fill, Found + 4)
       IN  /\ prevEntry > 0
           /\ Byte(retval, fill, Found + 3) = NUL
           /\ IF n < 0
              THEN \* strlen(p + 4) runs off the end of the block
                   /\ pc' = "ub"
                   /\ UNCHANGED <<retval, p>>
              ELSE /\ retval' = memmove(retval, fill, prevEntry + 1, Found + 4, n + 1)
                   /\ p' = prevEntry
                   /\ pc' = pc
    /\ UNCHANGED <<path, hostCwd, fill, err, built, result, round, first>>
    /\ UNCHANGED notPathVars

\* lines 638-641: separator + '.' that starts a longer name
DotOther ==
    /\ pc = "scan"
    /\ Found # NULLP
    /\ Byte(retval, fill, Found + 2) \notin {BS, NUL, "."}
    /\ p' = Found + 1
    /\ UNCHANGED <<path, hostCwd, fill, retval, pc, err, built, result, round, first>>
    /\ UNCHANGED notPathVars

\* lines 608, 644-649: no separator + '.' is left; the block is shrunk and returned
RealPathReturn ==
    /\ pc = "scan"
    /\ Found = NULLP
    /\ result' = CStr(retval, fill)
    /\ pc' = "done"
    /\ UNCHANGED <<path, hostCwd, fill, retval, p, err, built, round, first>>
    /\ UNCHANGED notPathVars

\* The caller canonicalizes the returned path again (a new block, the same
\* current directory).
RealPathAgain ==
    /\ pc = "done"
    /\ round = 1
    /\ first' = result
    /\ path' = result
    /\ round' = 2
    /\ fill' \in Fills
    /\ retval' = <<>>
    /\ p' = 0
    /\ pc' = "start"
    /\ built' = <<>>
    /\ result' = NULLSTR
    /\ UNCHANGED <<hostCwd, err>>
    /\ UNCHANGED notPathVars

PathNext ==
    \/ RealPathInvalid
    \/ RealPathNoMemory
    \/ RealPathBuild
    \/ DotEntryMiddle
    \/ DotEntryEnd
    \/ DotDotAtStart
    \/ DotDotMiddle
    \/ DotDotEnd
    \/ DotOther
    \/ RealPathReturn
    \/ RealPathAgain

PathSpec == PathInit /\ [][PathNext]_vars

---------------------------------------------------------------------------
(* What the specification says of canonicalize, for stating the properties *)

\* s split at the separators
RECURSIVE Segments(_)
Segments(s) ==
    LET seps == {i \in 1..Len(s) : s[i] = BS}
    IN  IF seps = {} THEN <<s>>
        ELSE <<SubSeq(s, 1, Min(seps) - 1)>> \o Segments(SubSeq(s, Min(seps) + 1, Len(s)))

Dot    == <<".">>
DotDot == <<".", ".">>

\* "X:\" followed by segments none of which is empty
IsDrivePath(s) ==
    /\ Len(s) > 3
    /\ s[1] \notin {BS, ".", ":", "/"}
    /\ s[2] = ":"
    /\ s[3] = BS
    /\ \A i \in 1..Len(Segments(PathFrom(s, 3))) : Segments(PathFrom(s, 3))[i] # <<>>

\* a segment that is "." or "..", or a name without a '.'
PlainSegment(g) == g \in {Dot, DotDot} \/ \A i \in 1..Len(g) : g[i] \notin {".", "/"}

\* The segments left when every "." is dropped and every ".." takes the
\* segment before it with it (nothing, at the root).
RECURSIVE Resolve(_, _)
Resolve(segs, stack) ==
    IF segs = <<>> THEN stack
    ELSE IF Head(segs) = Dot THEN Resolve(Tail(segs), stack)
    ELSE IF Head(segs) = DotDot
         THEN Resolve(Tail(segs), IF stack = <<>> THEN stack ELSE SubSeq(stack, 1, Len(stack) - 1))
    ELSE Resolve(Tail(segs), Append(stack, Head(segs)))

RECURSIVE Join(_)
Join(segs) ==
    IF segs = <<>> THEN <<>>
    ELSE IF Len(segs) = 1 THEN segs[1]
    ELSE segs[1] \o <<BS>> \o Join(Tail(segs))

Resolved(s) == SubSeq(s, 1, 3) \o Join(Resolve(Segments(PathFrom(s, 3)), <<>>))

Returned == pc = "done" /\ round = 1

\* C1: canonicalize(canonicalize(p, cwd), cwd) = canonicalize(p, cwd): the
\* second call, made on the first call's result, returns that result.
C1_Idempotent ==
    (pc = "done" /\ round = 2) => result = first

\* C2: "C:\a\.\b\..\c" canonicalizes to "C:\a\c"; for an absolute drive path
\* that ends in a name, every "." is deleted, every ".." is removed with the
\* segment before it, and the segments after a ".." are kept.
C2_DotRemoval ==
    /\ (Returned /\ path = PathDotRemoval) => result = <<"C", ":", BS, "a", BS, "c">>
    /\ (Returned /\ IsDrivePath(path)
          /\ (\A i \in 1..Len(Segments(PathFrom(path, 3))) :
                 PlainSegment(Segments(PathFrom(path, 3))[i]))
          /\ Segments(PathFrom(path, 3))[Len(Segments(PathFrom(path, 3)))] \notin {Dot, DotDot})
       => result = Resolved(path)

\* C3: "C:\.." canonicalizes to "C:\"; a drive root followed only by "." and
\* ".." segments, which have nothing to pop, still yields the drive root
\* with its separator.
C3_RootAbsorption ==
    /\ (Returned /\ path = PathRootParent) => result = <<"C", ":", BS>>
    /\ (Returned /\ IsDrivePath(path)
          /\ (\A i \in 1..Len(Segments(PathFrom(path, 3))) :
                 Segments(PathFrom(path, 3))[i] \in {Dot, DotDot})
          /\ (\E i \in 1..Len(Segments(PathFrom(path, 3))) :
                 Segments(PathFrom(path, 3))[i] = DotDot))
       => result = SubSeq(path, 1, 3)

\* the current directory as canonicalize is given it: it ends in a separator
Cwd == IF hostCwd[Len(hostCwd)] = BS THEN hostCwd ELSE hostCwd \o <<BS>>

\* C4: with cwd "C:\Users\x\", "C:foo" canonicalizes to "C:\Users\x\foo" and
\* "D:foo" to "D:\foo"; a path "X:rest" with no separator after the colon is,
\* before the dot pass, cwd followed by rest when X is the drive of cwd and
\* "X:\" followed by rest otherwise.
C4_DriveRelative ==
    /\ (pc = "done" /\ path = PathSameDrive /\ hostCwd = UsersCwd)
          => result = <<"C", ":", BS, "U", "s", "e", "r", "s", BS, "x", BS, "f", "o", "o">>
    /\ (pc = "done" /\ path = PathOtherDrive /\ hostCwd = UsersCwd)
          => result = <<"D", ":", BS, "f", "o", "o">>
    /\ (pc \in {"scan", "done"} /\ PathAt(path, 1) = ":" /\ PathAt(path, 2) # BS)
          => built = IF path[1] = Cwd[1]
                     THEN Cwd \o SubSeq(path, 3, Len(path))
                     ELSE <<path[1], ":", BS>> \o SubSeq(path, 3, Len(path))

\* C4's case: "C:foo" has been canonicalized under "C:\Users\x\"
C4_Witness ==
    /\ pc = "done"
    /\ path = PathSameDrive
    /\ hostCwd = UsersCwd
    /\ built = <<"C", ":", BS, "U", "s", "e", "r", "s", BS, "x", BS, "f", "o", "o">>

IsAbsolute(s) ==
    \/ Len(s) >= 2 /\ s[1] = BS /\ s[2] = BS
    \/ Len(s) >= 3 /\ s[2] = ":" /\ s[3] = BS

\* C5: the returned string is absolute, holds no '/', and has no segment
\* that is "." or "..".
C5_PostCondition ==
    Returned =>
        /\ IsAbsolute(result)
        /\ \A i \in 1..Len(result) : result[i] # "/"
        /\ \A i \in 1..Len(Segments(result)) : Segments(result)[i] \notin {Dot, DotDot}

\* s holds a separator followed by '.'
HasDotEntry(s) == \E i \in 1..(Len(s) - 1) : s[i] = BS /\ s[i + 1] = "."

LastSep(s) == Max({i \in 1..Len(s) : s[i] = BS})

\* C6: a drive path whose only dot entry is a final "\." is cut at that
\* separator; one whose only dot entry is a final "\.." after an entry that
\* can be popped ends just after the separator before that entry, whatever
\* the block held before the call.
C6_TrailingDots ==
    /\ (Returned /\ IsDrivePath(path) /\ Len(path) > 4
          /\ SubSeq(path, Len(path) - 1, Len(path)) = <<BS, ".">>
          /\ ~HasDotEntry(SubSeq(path, 1, Len(path) - 2)))
       => result = SubSeq(path, 1, Len(path) - 2)
    /\ (round = 1 /\ pc \in {"done", "ub"} /\ IsDrivePath(path) /\ Len(path) > 6
          /\ SubSeq(path, Len(path) - 2, Len(path)) = <<BS, ".", ".">>
          /\ ~HasDotEntry(SubSeq(path, 1, Len(path) - 3)))
       => /\ pc = "done"
          /\ result = SubSeq(path, 1, LastSep(SubSeq(path, 1, Len(path) - 3)))


\* length of the string in the block
StrLen == strlen(retval, fill, 0)

\* the dot pass is at a ".." entry that ends the string (line 632)
AtDotDotEnd ==
    /\ pc = "scan"
    /\ Found # NULLP
    /\ Byte(retval, fill, Found + 2) = "."
    /\ PrevEntry(retval, fill, Found - 1) > 0
    /\ Byte(retval, fill, Found + 3) = NUL

\* C16: no write leaves the MAX_PATH block, and every read of the dot pass
\* is within the string, its terminator included.
C16_BufferSafety ==
    /\ pc # "ub"
    /\ pc = "scan" => Len(retval) <= MAX_PATH
    /\ AtDotDotEnd => Found + 4 <= StrLen

\* C17, one turn of the loop: the pass ends, or the string gets shorter, or
\* it keeps its length and the scan position moves forward; the position
\* is never before the block.
C17_Turn ==
    pc = "scan" =>
        \/ pc' = "done"
        \/ /\ pc' = "scan"
           /\ p' >= 0
           /\ \/ strlen(retval', fill', 0) < StrLen
              \/ strlen(retval', fill', 0) = StrLen /\ p' > p

\* C17: the scan for separator + '.' terminates: every turn is such a turn.
C17_Terminates == [][C17_Turn]_vars

---------------------------------------------------------------------------
(* The host's file API, as windows.c uses it.  A DWORD has DWORD_BITS bits  *)
(* (32 on the host, fewer here), a 64-bit value twice that.                 *)

DWORD_BITS == 2
\* file lengths and offsets go this far past the largest DWORD
ExtraLen == 1
\* handles the caller holds at once
MaxHandles == 1

DWORD_RANGE == 2 ^ DWORD_BITS
PHYSFS_INVALID_SET_FILE_POINTER == DWORD_RANGE - 1
INVALID_HANDLE_VALUE == -1

\* every offset up to a little past the largest DWORD, and the first one past
\* it whose low half is the invalid-pointer value
Offsets == 0..(DWORD_RANGE + ExtraLen) \cup {2 * DWORD_RANGE - 1}
Descs   == 1..(MaxHandles + 1)
RecIds  == 1..(MaxHandles + 1)

LOWORDER_UINT64(pos)  == pos % DWORD_RANGE
HIGHORDER_UINT64(pos) == (pos \div DWORD_RANGE) % DWORD_RANGE

\* a DWORD read as a LONG, and a pair of DWORDs read as a LONGLONG
AsLong(lo) == IF lo >= DWORD_RANGE \div 2 THEN lo - DWORD_RANGE ELSE lo
AsLongLong(hi, lo) ==
    IF hi >= DWORD_RANGE \div 2
    THEN (hi * DWORD_RANGE + lo) - DWORD_RANGE * DWORD_RANGE
    ELSE hi * DWORD_RANGE + lo

\* The host and heap state the file operations read and write.
Cur ==
    [fileLen |-> fileLen, openDescs |-> openDescs, filePos |-> filePos,
     recs |-> recs, lastError |-> lastError]

\* CreateFile(): a new descriptor at offset 0, or INVALID_HANDLE_VALUE.
\* CREATE_ALWAYS truncates the file.
CreateFile(st, creation, ok) ==
    LET free == Descs \ st.openDescs
    IN  IF ~ok \/ free = {}
        THEN [st |-> [st EXCEPT !.lastError = "ERROR_ACCESS_DENIED"],
              handle |-> INVALID_HANDLE_VALUE]
        ELSE LET d == Min(free)
             IN  [st |-> [st EXCEPT
                            !.openDescs = st.openDescs \cup {d},
                            !.filePos = [x \in st.openDescs \cup {d} |->
                                            IF x = d THEN 0 ELSE st.filePos[x]],
                            !.fileLen = IF creation = "CREATE_ALWAYS" THEN 0 ELSE st.fileLen],
                  handle |-> d]

\* CloseHandle(): when it reports failure the descriptor stays open.
CloseHandle(st, d, ok) ==
    IF ok /\ d \in st.openDescs
    THEN [st |-> [st EXCEPT
                    !.openDescs = st.openDescs \ {d},
                    !.filePos = [x \in st.openDescs \ {d} |-> st.filePos[x]]],
          ret |-> TRUE]
    ELSE [st |-> [st EXCEPT !.lastError = "ERROR_GEN_FAILURE"], ret |-> FALSE]

\* SetFilePointer(h, lo, pHigh, method); pHigh = NULLP is the NULL pointer.
\* With a NULL pHigh the distance is the LONG lo and the new position must
\* fit a DWORD; a negative new position is refused.
SetFilePointer(st, d, lo, pHigh, method) ==
    LET dist == IF pHigh = NULLP THEN AsLong(lo) ELSE AsLongLong(pHigh, lo)
        base == CASE method = "FILE_BEGIN"   -> 0
                  [] method = "FILE_CURRENT" -> st.filePos[d]
                  [] method = "FILE_END"     -> st.fileLen
        new  == base + dist
    IN  IF new < 0
        THEN [st |-> [st EXCEPT !.lastError = "ERROR_NEGATIVE_SEEK"],
              rc |-> PHYSFS_INVALID_SET_FILE_POINTER, high |-> pHigh]
        ELSE IF pHigh = NULLP /\ new >= DWORD_RANGE
        THEN [st |-> [st EXCEPT !.lastError = "ERROR_INVALID_PARAMETER"],
              rc |-> PHYSFS_INVALID_SET_FILE_POINTER, high |-> pHigh]
        ELSE [st |-> [st EXCEPT !.filePos[d] = new, !.lastError = "NO_ERROR"],
              rc |-> new % DWORD_RANGE,
              high |-> IF pHigh = NULLP THEN NULLP ELSE new \div DWORD_RANGE]

\* GetFileSize(h, &high)
GetFileSize(st, d) ==
    [st |-> [st EXCEPT !.lastError = "NO_ERROR"],
     rc |-> st.fileLen % DWORD_RANGE, high |-> st.fileLen \div DWORD_RANGE]

\* the most bytes the disk lets the file hold
DiskBytes == 2 * DWORD_RANGE - 1

\* ReadFile(h, buf, n, &got, NULL): the bytes between the file pointer and the
\* end of the file, at most n of them.  A descriptor opened without
\* GENERIC_READ, or a device error, fails the call.
ReadFile(st, d, n, readable, ok) ==
    IF ~ok \/ ~readable
    THEN [st |-> [st EXCEPT !.lastError =
                     IF readable THEN "ERROR_READ_FAULT" ELSE "ERROR_ACCESS_DENIED"],
          ok |-> FALSE, got |-> 0]
    ELSE LET avail == IF st.fileLen > st.filePos[d] THEN st.fileLen - st.filePos[d] ELSE 0
             got   == IF n < avail THEN n ELSE avail
         IN  [st |-> [st EXCEPT !.filePos[d] = st.filePos[d] + got],
              ok |-> TRUE, got |-> got]

\* WriteFile(h, buf, n, &got, NULL): n bytes at the file pointer, fewer when
\* the disk fills up; the file grows to hold them.
WriteFile(st, d, n, writable, ok) ==
    IF ~ok \/ ~writable
    THEN [st |-> [st EXCEPT !.lastError =
                     IF writable THEN "ERROR_WRITE_FAULT" ELSE "ERROR_ACCESS_DENIED"],
          ok |-> FALSE, got |-> 0]
    ELSE LET room == IF DiskBytes > st.filePos[d] THEN DiskBytes - st.filePos[d] ELSE 0
             got  == IF n < room THEN n ELSE room
             end  == st.filePos[d] + got
         IN  [st |-> [st EXCEPT !.filePos[d] = end,
                                !.fileLen = IF got > 0 /\ end > st.fileLen
                                            THEN end ELSE st.fileLen],
              ok |-> TRUE, got |-> got]

\* allocator.Malloc(sizeof (win32file)) and allocator.Free()
Malloc(st, ok) ==
    IF ~ok \/ RecIds \ DOMAIN st.recs = {} THEN NULLP ELSE Min(RecIds \ DOMAIN st.recs)

Free(st, r) == [st EXCEPT !.recs = [x \in DOMAIN st.recs \ {r} |-> st.recs[x]]]

---------------------------------------------------------------------------
(* The file operations of windows.c *)

\* lines 712-737
doOpen(st, creation, rdonly, createOk, mallocOk) ==
    LET c == CreateFile(st, creation, createOk)
    IN  IF c.handle = INVALID_HANDLE_VALUE
        THEN [st |-> c.st, ret |-> NULLP]
        ELSE LET r == Malloc(c.st, mallocOk)
             IN  IF r = NULLP
                 THEN [st |-> CloseHandle(c.st, c.handle, TRUE).st, ret |-> NULLP]
                 ELSE [st |-> [c.st EXCEPT
                                 !.recs = [x \in DOMAIN c.st.recs \cup {r} |->
                                             IF x = r
                                             THEN [handle |-> c.handle, readonly |-> rdonly]
                                             ELSE c.st.recs[x]]],
                       ret |-> r]

\* lines 740-743
__PHYSFS_platformOpenRead(st, createOk, mallocOk) ==
    doOpen(st, "OPEN_EXISTING", 1, createOk, mallocOk)

\* lines 746-749
__PHYSFS_platformOpenWrite(st, createOk, mallocOk) ==
    doOpen(st, "CREATE_ALWAYS", 0, createOk, mallocOk)

\* __PHYSFS_platformOpenAppend without line 762: a failed end-seek frees the
\* record and leaves the descriptor open
OpenAppend_NoCloseHandle(st, createOk, mallocOk) ==
    LET o == doOpen(st, "OPEN_ALWAYS", 0, createOk, mallocOk)
    IN  IF o.ret # NULLP
        THEN LET h == o.st.recs[o.ret].handle
                 s == SetFilePointer(o.st, h, 0, NULLP, "FILE_END")
             IN  IF s.rc = PHYSFS_INVALID_SET_FILE_POINTER
                 THEN [st |-> Free(s.st, o.ret), ret |-> NULLP]
                 ELSE [st |-> s.st, ret |-> o.ret]
        ELSE o

\* lines 752-769
__PHYSFS_platformOpenAppend(st, createOk, mallocOk) ==
    LET o == doOpen(st, "OPEN_ALWAYS", 0, createOk, mallocOk)
    IN  IF o.ret # NULLP
        THEN LET h == o.st.recs[o.ret].handle
                 s == SetFilePointer(o.st, h, 0, NULLP, "FILE_END")
             IN  IF s.rc = PHYSFS_INVALID_SET_FILE_POINTER
                 THEN [st |-> Free(CloseHandle(s.st, h, TRUE).st, o.ret), ret |-> NULLP]
                 ELSE [st |-> s.st, ret |-> o.ret]
        ELSE o

\* lines 772-793.  count * size is a PHYSFS_uint32 product: it wraps.
__PHYSFS_platformRead(st, r, size, count, ok) ==
    LET Handle == st.recs[r].handle
        f == ReadFile(st, Handle, (count * size) % DWORD_RANGE,
                      st.recs[r].readonly = 1, ok)
    IN  IF ~f.ok
        THEN [st |-> f.st, ret |-> -1, req |-> (count * size) % DWORD_RANGE, got |-> -1]
        ELSE [st |-> f.st, ret |-> f.got \div size,
              req |-> (count * size) % DWORD_RANGE, got |-> f.got]

\* lines 796-817
__PHYSFS_platformWrite(st, r, size, count, ok) ==
    LET Handle == st.recs[r].handle
        f == WriteFile(st, Handle, (count * size) % DWORD_RANGE,
                       st.recs[r].readonly = 0, ok)
    IN  IF ~f.ok
        THEN [st |-> f.st, ret |-> -1, req |-> (count * size) % DWORD_RANGE, got |-> -1]
        ELSE [st |-> f.st, ret |-> f.got \div size,
              req |-> (count * size) % DWORD_RANGE, got |-> f.got]

\* lines 820-855
__PHYSFS_platformSeek(st, r, pos) ==
    LET Handle == st.recs[r].handle
        HighOrderPos == HIGHORDER_UINT64(pos)
        pHighOrderPos == IF HighOrderPos # 0 THEN HighOrderPos ELSE NULLP
        s == SetFilePointer(st, Handle, LOWORDER_UINT64(pos), pHighOrderPos, "FILE_BEGIN")
    IN  IF s.rc = PHYSFS_INVALID_SET_FILE_POINTER /\ s.st.lastError # "NO_ERROR"
        THEN [st |-> s.st, ret |-> 0]
        ELSE [st |-> s.st, ret |-> 1]

\* lines 858-880
__PHYSFS_platformTell(st, r) ==
    LET Handle == st.recs[r].handle
        s == SetFilePointer(st, Handle, 0, 0, "FILE_CURRENT")
    IN  IF s.rc = PHYSFS_INVALID_SET_FILE_POINTER /\ s.st.lastError # "NO_ERROR"
        THEN [st |-> s.st, ret |-> 0]
        ELSE [st |-> s.st, ret |-> s.high * DWORD_RANGE + s.rc]

\* lines 883-904
__PHYSFS_platformFileLength(st, r) ==
    LET Handle == st.recs[r].handle
        s == GetFileSize(st, Handle)
    IN  IF s.rc = PHYSFS_INVALID_SET_FILE_POINTER /\ s.st.lastError # "NO_ERROR"
        THEN [st |-> s.st, ret |-> -1]
        ELSE [st |-> s.st, ret |-> s.high * DWORD_RANGE + s.rc]

\* lines 907-920
__PHYSFS_platformEOF(st, r) ==
    LET FilePosition == __PHYSFS_platformTell(st, r)
    IN  IF FilePosition.ret # 0
        THEN LET len == __PHYSFS_platformFileLength(FilePosition.st, r)
             IN  [st |-> len.st, ret |-> IF FilePosition.ret = len.ret THEN 1 ELSE 0]
        ELSE [st |-> FilePosition.st, ret |-> 0]

\* lines 933-939
__PHYSFS_platformClose(st, r, closeOk) ==
    LET Handle == st.recs[r].handle
        c == CloseHandle(st, Handle, closeOk)
    IN  IF ~c.ret
        THEN [st |-> c.st, ret |-> 0]
        ELSE [st |-> Free(c.st, r), ret |-> 1]

\* lines 1067-1105, the descriptor it opens; the time it returns is 1 here
\* and -1 is its failure.  attrTime: pGetFileAttributesExA gave a time.
__PHYSFS_platformGetLastModTime(st, attrTime, createOk, mallocOk, timeOk) ==
    IF attrTime
    THEN [st |-> st, ret |-> 1]
    ELSE LET f == __PHYSFS_platformOpenRead(st, createOk, mallocOk)
         IN  IF f.ret = NULLP
             THEN [st |-> f.st, ret |-> -1]
             ELSE LET closed == CloseHandle(f.st, f.st.recs[f.ret].handle, TRUE).st
                      freed  == Free(closed, f.ret)
                  IN  IF ~timeOk
                      THEN [st |-> [freed EXCEPT !.lastError = "ERROR_INVALID_FUNCTION"],
                            ret |-> -1]
                      ELSE [st |-> freed, ret |-> 1]

---------------------------------------------------------------------------
(* The caller: one platform call per step *)

Commit(st) ==
    /\ fileLen' = st.fileLen
    /\ openDescs' = st.openDescs
    /\ filePos' = st.filePos
    /\ recs' = st.recs
    /\ lastError' = st.lastError

Opened(name, o) ==
    /\ Commit(o.st)
    /\ held' = IF o.ret = NULLP THEN held ELSE held \cup {o.ret}
    /\ last' = [op |-> name, rec |-> o.ret, arg |-> 0, ret |-> o.ret]

OpenRead ==
    /\ Cardinality(held) < MaxHandles
    /\ \E createOk, mallocOk \in BOOLEAN :
          Opened("open_read", __PHYSFS_platformOpenRead(Cur, createOk, mallocOk))
    /\ UNCHANGED notFileVars

OpenWrite ==
    /\ Cardinality(held) < MaxHandles
    /\ \E createOk, mallocOk \in BOOLEAN :
          Opened("open_write", __PHYSFS_platformOpenWrite(Cur, createOk, mallocOk))
    /\ UNCHANGED notFileVars

OpenAppend ==
    /\ Cardinality(held) < MaxHandles
    /\ \E createOk, mallocOk \in BOOLEAN :
          Opened("open_append", __PHYSFS_platformOpenAppend(Cur, createOk, mallocOk))
    /\ UNCHANGED notFileVars

Called(name, r, arg, o) ==
    /\ Commit(o.st)
    /\ last' = [op |-> name, rec |-> r, arg |-> arg, ret |-> o.ret]

\* element sizes and counts: every PHYSFS_uint32 but the size 0
Sizes  == 1..(DWORD_RANGE - 1)
Counts == 0..(DWORD_RANGE - 1)

Transferred(name, r, size, count, o) ==
    /\ Commit(o.st)
    /\ last' = [op |-> name, rec |-> r, arg |-> count, size |-> size,
                req |-> o.req, got |-> o.got, ret |-> o.ret]

Read ==
    /\ \E r \in held, size \in Sizes, count \in Counts, ok \in BOOLEAN :
          Transferred("read", r, size, count,
                      __PHYSFS_platformRead(Cur, r, size, count, ok))
    /\ UNCHANGED held
    /\ UNCHANGED notFileVars

Write ==
    /\ \E r \in held, size \in Sizes, count \in Counts, ok \in BOOLEAN :
          Transferred("write", r, size, count,
                      __PHYSFS_platformWrite(Cur, r, size, count, ok))
    /\ UNCHANGED held
    /\ UNCHANGED notFileVars

Seek ==
    /\ \E r \in held, pos \in Offsets :
          Called("seek", r, pos, __PHYSFS_platformSeek(Cur, r, pos))
    /\ UNCHANGED held
    /\ UNCHANGED notFileVars

Tell ==
    /\ \E r \in held : Called("tell", r, 0, __PHYSFS_platformTell(Cur, r))
    /\ UNCHANGED held
    /\ UNCHANGED notFileVars

FileLength ==
    /\ \E r \in held : Called("length", r, 0, __PHYSFS_platformFileLength(Cur, r))
    /\ UNCHANGED held
    /\ UNCHANGED notFileVars

EOF ==
    /\ \E r \in held : Called("eof", r, 0, __PHYSFS_platformEOF(Cur, r))
    /\ UNCHANGED held
    /\ UNCHANGED notFileVars

\* The caller gives up the handle only when close reports success.
Close ==
    /\ \E r \in held, closeOk \in BOOLEAN :
          LET o == __PHYSFS_platformClose(Cur, r, closeOk)
          IN  /\ Called("close", r, recs[r].handle, o)
              /\ held' = IF o.ret = 1 THEN held \ {r} ELSE held
    /\ UNCHANGED notFileVars

\* Line 1074 tests pGetFileAttributesExA before line 1077 calls it; attrOk: the
\* call gives a time FileTimeToPhysfsTime converts.
GetLastModTime ==
    /\ libPc = "run"
    /\ \E attrOk, createOk, mallocOk, timeOk \in BOOLEAN :
          LET flag == ptr["GetFileAttributesExA"]
              o == __PHYSFS_platformGetLastModTime(Cur, flag /\ attrOk,
                                                   createOk, mallocOk, timeOk)
          IN  /\ Commit(o.st)
              /\ last' = [op |-> "last_modified", rec |-> NULLP, arg |-> 0,
                          ret |-> o.ret,
                          calls |-> IF flag
                                    THEN {[entry |-> "GetFileAttributesExA",
                                           tested |-> TRUE]}
                                    ELSE {}]
    /\ UNCHANGED held
    /\ UNCHANGED notFileVars

PathIdle ==
    /\ path = <<>>
    /\ hostCwd = RootCwd
    /\ fill = "zero"
    /\ retval = <<>>
    /\ p = 0
    /\ pc = "idle"
    /\ err = "none"
    /\ built = <<>>
    /\ result = NULLSTR
    /\ round = 1
    /\ first = NULLSTR

FileInit ==
    /\ fileLen \in Offsets
    /\ openDescs = {}
    /\ filePos = <<>>
    /\ recs = <<>>
    /\ held = {}
    /\ lastError = "NO_ERROR"
    /\ last = [op |-> "none", rec |-> NULLP, arg |-> 0, ret |-> 0]
    /\ PathIdle
    /\ DelIdle
    /\ LibReady
    /\ TimeIdle

FileNext ==
    \/ OpenRead
    \/ OpenWrite
    \/ OpenAppend
    \/ Seek
    \/ Tell
    \/ FileLength
    \/ EOF
    \/ Close
    \/ GetLastModTime

FileSpec == FileInit /\ [][FileNext]_vars

\* The file operations with read and write among them
IoNext ==
    \/ OpenRead
    \/ OpenWrite
    \/ OpenAppend
    \/ Read
    \/ Write
    \/ Seek
    \/ Tell
    \/ FileLength
    \/ EOF
    \/ Close
    \/ GetLastModTime

IoSpec == FileInit /\ [][IoNext]_vars

---------------------------------------------------------------------------
(* The properties of the file handles *)

\* C7: eof(handle) is true exactly when the handle's offset equals the file
\* length; so it is on a fresh handle on an empty file (offset 0, length 0).
C7_EofIffAtEnd ==
    last.op = "eof" =>
        (last.ret = 1 <=> filePos[recs[last.rec].handle] = fileLen)

C9_CloseAlwaysDestroys ==
    last.op = "close" =>
        /\ last.rec \notin DOMAIN recs
        /\ last.arg \notin openDescs

\* C10: seek(h, o) with 0 <= o <= length succeeds and tell(h) then returns o.
C10_SeekThenTell ==
    (last.op = "seek" /\ last.arg <= fileLen) =>
        /\ last.ret = 1
        /\ __PHYSFS_platformTell(Cur, last.rec).ret = last.arg

\* C11: read and write return the whole elements transferred,
\* floor(bytes / size), and -1 when the host call fails; when the host
\* transfers every byte it was asked for, they return the count given, for
\* every size >= 1 and every count.
C11_ElementCount ==
    last.op \in {"read", "write"} =>
        /\ last.got = -1 => last.ret = -1
        /\ last.got >= 0 => last.ret = last.got \div last.size
        /\ (last.got >= 0 /\ last.got = last.req) => last.ret = last.arg

---------------------------------------------------------------------------
(* __PHYSFS_platformDelete and __PHYSFS_platformIsDirectory.  An attribute   *)
(* value is the set of its bits that are 1.                                 *)

AttrBits == {"READONLY", "DIRECTORY", "ARCHIVE", "NORMAL"}
FILE_ATTRIBUTE_DIRECTORY == {"DIRECTORY"}
\* 0xFFFFFFFF: every bit
PHYSFS_INVALID_FILE_ATTRIBUTES == AttrBits

\* what the host reports for a file and for a directory
FileAttrs == {{"NORMAL"}, {"ARCHIVE"}, {"READONLY"}, {"READONLY", "ARCHIVE"}}
DirAttrs  == {{"DIRECTORY"}, {"DIRECTORY", "ARCHIVE"}, {"DIRECTORY", "READONLY"},
              {"DIRECTORY", "READONLY", "ARCHIVE"}}
Names == {"a", "b"}

\* GetFileAttributes(path): the bits, or every bit for a path that is not there
GetFileAttributes(fs, name) ==
    IF name \in DOMAIN fs THEN fs[name] ELSE PHYSFS_INVALID_FILE_ATTRIBUTES

Unlink(fs, name) == [x \in DOMAIN fs \ {name} |-> fs[x]]

\* RemoveDirectory(path): removes a directory; ok: it is empty and the host
\* permits it
RemoveDirectory(fs, name, ok) ==
    IF name \in DOMAIN fs /\ "DIRECTORY" \in fs[name] /\ ok
    THEN [fs |-> Unlink(fs, name), ret |-> TRUE]
    ELSE [fs |-> fs, ret |-> FALSE]

\* DeleteFile(path): removes a file that is not read-only; it fails on a
\* directory
DeleteFile(fs, name, ok) ==
    IF name \in DOMAIN fs /\ "DIRECTORY" \notin fs[name]
          /\ "READONLY" \notin fs[name] /\ ok
    THEN [fs |-> Unlink(fs, name), ret |-> TRUE]
    ELSE [fs |-> fs, ret |-> FALSE]

\* lines 942-957
__PHYSFS_platformDelete(fs, name, ok) ==
    IF GetFileAttributes(fs, name) = FILE_ATTRIBUTE_DIRECTORY
    THEN LET d == RemoveDirectory(fs, name, ok)
         IN  [fs |-> d.fs, used |-> "RemoveDirectory", primOk |-> d.ret,
              ret |-> IF ~d.ret THEN 0 ELSE 1]
    ELSE LET d == DeleteFile(fs, name, ok)
         IN  [fs |-> d.fs, used |-> "DeleteFile", primOk |-> d.ret,
              ret |-> IF ~d.ret THEN 0 ELSE 1]

\* lines 422-426
__PHYSFS_platformIsDirectory(fs, name) ==
    IF (GetFileAttributes(fs, name) \cap FILE_ATTRIBUTE_DIRECTORY) # {} THEN 1 ELSE 0

Delete ==
    /\ \E name \in Names, ok \in BOOLEAN :
          LET o == __PHYSFS_platformDelete(attrs, name, ok)
          IN  /\ attrs' = o.fs
              /\ lastDel' = [op |-> "delete", name |-> name,
                             attr |-> GetFileAttributes(attrs, name),
                             used |-> o.used, primOk |-> o.primOk, ret |-> o.ret]
    /\ UNCHANGED notDelVars

IsDirectory ==
    /\ \E name \in Names :
          lastDel' = [op |-> "is_directory", name |-> name,
                      attr |-> GetFileAttributes(attrs, name),
                      ret |-> __PHYSFS_platformIsDirectory(attrs, name)]
    /\ UNCHANGED attrs
    /\ UNCHANGED notDelVars

DelInit ==
    /\ \E present \in SUBSET Names : attrs \in [present -> FileAttrs \cup DirAttrs]
    /\ lastDel = [op |-> "none"]
    /\ PathIdle
    /\ FileIdle
    /\ LibReady
    /\ TimeIdle

DelNext ==
    \/ Delete
    \/ IsDirectory

DelSpec == DelInit /\ [][DelNext]_vars

\* C12: delete uses the directory-removal primitive for every path whose
\* attributes include the directory bit, alone or with other bits, and the
\* file-removal primitive for every other path; it fails exactly when the
\* primitive it chose fails.
C12_DeleteDispatch ==
    lastDel.op = "delete" =>
        /\ lastDel.used = IF lastDel.attr \in DirAttrs
                          THEN "RemoveDirectory" ELSE "DeleteFile"
        /\ lastDel.ret = 0 <=> ~lastDel.primOk

---------------------------------------------------------------------------
(* The library lifecycle: findApiSymbols, getExePath, determineUserDir,     *)
(* __PHYSFS_platformInit and __PHYSFS_platformDeinit.                       *)

\* references the host lets one module have
MaxLoads == 1
\* strings the allocator can hold at once
MaxBlocks == 2
\* line 177: the first buffer getExePath tries, in WCHARs
ExeBufLen == 64

Blocks == 1..MaxBlocks

\* The process holds kernel32.dll on its own; the other two modules are
\* loaded by findApiSymbols only.
ProcessLoads(m) == IF m = "kernel32.dll" THEN 1 ELSE 0

\* The library's state as the operations read and write it.
Lib ==
    [libs |-> libs, loads |-> loads, ptr |-> ptr, userDir |-> userDir,
     heap |-> heap, pc |-> libPc, calls |-> {}]

\* allocator.Malloc of a string, and allocator.Free
StrAlloc(L, ok, str) ==
    IF ~ok \/ Blocks \ DOMAIN L.heap = {}
    THEN [L |-> L, blk |-> NULLP]
    ELSE LET b == Min(Blocks \ DOMAIN L.heap)
         IN  [L |-> [L EXCEPT !.heap = [x \in DOMAIN L.heap \cup {b} |->
                                           IF x = b THEN str ELSE L.heap[x]]],
              blk |-> b]

StrFree(L, b) == [L EXCEPT !.heap = [x \in DOMAIN L.heap \ {b} |-> L.heap[x]]]

\* A call through the pointer of entry e.  A NULL pointer faults; a pointer
\* into a module that has been unloaded is a dangling one, and the call
\* faults or runs whatever is mapped there (stale says which).
CallThrough(L, e, tested, stale) ==
    LET noted == [L EXCEPT !.calls = L.calls \cup {[entry |-> e, tested |-> tested]}]
    IN  IF ~L.ptr[e] THEN [noted EXCEPT !.pc = "crashed"]
        ELSE IF L.loads[ModuleOf(e)] = 0 /\ stale = "fault"
        THEN [noted EXCEPT !.pc = "crashed"]
        ELSE noted

\* lines 94-132: `dll = lib = LoadLibrary(...)`, then the LOOKUPs when dll is
\* not NULL; a pointer whose module failed to load keeps the value it had.
findApiSymbols(L, loadOk, symOk) ==
    [L EXCEPT
       !.libs  = [m \in Modules |-> loadOk[m]],
       !.loads = [m \in Modules |-> IF loadOk[m] THEN L.loads[m] + 1 ELSE L.loads[m]],
       !.ptr   = [e \in Entries |-> IF loadOk[ModuleOf(e)] THEN symOk[e] ELSE L.ptr[e]]]

\* GetModuleFileNameW(NULL, buf, buflen): 0 on failure, the length of the path
\* when it fits, buflen when it was cut short.  exeLen = 0: the host fails.
GetModuleFileNameW(exeLen, buflen) ==
    IF exeLen = 0 THEN 0 ELSE IF exeLen < buflen THEN exeLen ELSE buflen

\* lines 182-207: the loop of getExePath, at its k-th turn.  x.reallocFailAt
\* is the turn at which allocator.Realloc fails (0: never).
RECURSIVE ExeLoop(_, _, _, _)
ExeLoop(L, x, buflen, k) ==
    IF x.reallocFailAt = k
    THEN [L |-> L, out |-> "ERR_OUT_OF_MEMORY", buflen |-> buflen]
    ELSE LET c  == CallThrough(L, "GetModuleFileNameW", FALSE, "fault")
             rc == GetModuleFileNameW(x.exeLen, buflen)
         IN  IF c.pc = "crashed" THEN [L |-> c, out |-> "crashed", buflen |-> buflen]
             ELSE IF rc = 0 THEN [L |-> c, out |-> "win32", buflen |-> buflen]
             ELSE IF rc < buflen THEN [L |-> c, out |-> "ok", buflen |-> rc]
             ELSE ExeLoop(c, x, buflen * 2, k + 1)

\* lines 175-243.  modpath is freed on every path out; the string returned is
\* the directory of the executable.
getExePath(L, x) ==
    LET l == ExeLoop(L, x, ExeBufLen, 1)
    IN  IF l.out # "ok" \/ l.buflen = 0 \/ ~x.hasSep
        THEN [L |-> l.L, ret |-> NULLP]
        ELSE LET a == StrAlloc(l.L, x.mallocOk, "exe")
             IN  [L |-> a.L, ret |-> a.blk]

\* lines 268-304 of determineUserDir: the profile directory, when
\* pGetUserProfileDirectoryW is not NULL.  u: what the host answers.
ProfileDir(L, u) ==
    IF ~L.ptr["GetUserProfileDirectoryW"] \/ ~u.tokenOk
    THEN L
    ELSE LET c1 == CallThrough(L, "GetUserProfileDirectoryW", TRUE, u.stale)
         IN  IF c1.pc = "crashed" \/ ~u.smallOk
             THEN c1
             ELSE IF ~u.profileOk
             THEN c1
             ELSE LET a == StrAlloc(c1, u.mallocOk, "profile")
                  IN  [a.L EXCEPT !.userDir = a.blk]

\* lines 256-314
determineUserDir(L, u, x) ==
    IF L.userDir # NULLP
    THEN [L |-> L, ret |-> 1]
    ELSE LET pr == ProfileDir(L, u)
         IN  IF pr.pc = "crashed" THEN [L |-> pr, ret |-> 0]
             ELSE IF pr.userDir # NULLP THEN [L |-> pr, ret |-> 1]
             ELSE LET e == getExePath(pr, x)
                  IN  [L |-> [e.L EXCEPT !.userDir = e.ret],
                       ret |-> IF e.ret = NULLP THEN 0 ELSE 1]

\* lines 683-689
__PHYSFS_platformInit(L, loadOk, symOk, u, x) ==
    determineUserDir(findApiSymbols(L, loadOk, symOk), u, x)

\* __PHYSFS_platformDeinit without line 698: userDir keeps the freed pointer
Deinit_KeepUserDir(L) ==
    LET freed == IF L.userDir = NULLP THEN L ELSE StrFree(L, L.userDir)
    IN  [L |-> [freed EXCEPT
                  !.loads = [m \in Modules |->
                                IF L.libs[m] THEN L.loads[m] - 1 ELSE L.loads[m]],
                  !.libs = [m \in Modules |-> FALSE]],
         ret |-> 1]

\* lines 692-709
__PHYSFS_platformDeinit(L) ==
    LET freed == IF L.userDir = NULLP THEN L ELSE StrFree(L, L.userDir)
    IN  [L |-> [freed EXCEPT
                  !.userDir = NULLP,
                  !.loads = [m \in Modules |->
                                IF L.libs[m] THEN L.loads[m] - 1 ELSE L.loads[m]],
                  !.libs = [m \in Modules |-> FALSE]],
         ret |-> 1]

\* lines 388-394: strlen(userDir) reads through a NULL userDir
__PHYSFS_platformGetUserDir(L, mallocOk) ==
    IF L.userDir = NULLP
    THEN [L |-> [L EXCEPT !.pc = "crashed"], ret |-> NULLP]
    ELSE LET a == StrAlloc(L, mallocOk, L.heap[L.userDir])
         IN  [L |-> a.L, ret |-> a.blk]

\* lines 350-357
__PHYSFS_platformCalcBaseDir(L, argv0HasSep, x) ==
    IF argv0HasSep THEN [L |-> L, ret |-> NULLP] ELSE getExePath(L, x)

\* What the host answers: which modules load and which symbols resolve,
\* what determineUserDir meets, and what getExePath meets.
AllOf(S)    == [x \in S |-> TRUE]
AllBut(S, y) == [x \in S |-> x # y]
NoneOf(S)   == [x \in S |-> FALSE]

LoadOutcomes ==
    {AllOf(Modules), NoneOf(Modules),
     AllBut(Modules, "userenv.dll"), AllBut(Modules, "kernel32.dll")}
SymOutcomes ==
    {AllOf(Entries), NoneOf(Entries),
     AllBut(Entries, "GetUserProfileDirectoryW"), AllBut(Entries, "GetModuleFileNameW")}

ProfileGiven ==
    [tokenOk |-> TRUE, smallOk |-> TRUE, profileOk |-> TRUE, mallocOk |-> TRUE,
     stale |-> "run"]
NoProfile == [ProfileGiven EXCEPT !.tokenOk = FALSE, !.stale = "fault"]
UserDirInputs ==
    {ProfileGiven, NoProfile,
     [ProfileGiven EXCEPT !.stale = "fault"],
     [ProfileGiven EXCEPT !.smallOk = FALSE],
     [ProfileGiven EXCEPT !.profileOk = FALSE],
     [ProfileGiven EXCEPT !.mallocOk = FALSE]}

ExeFound == [exeLen |-> 12, hasSep |-> TRUE, reallocFailAt |-> 0, mallocOk |-> TRUE]
NoExe    == [ExeFound EXCEPT !.exeLen = 0]
ExeInputs ==
    {ExeFound, NoExe,
     [ExeFound EXCEPT !.exeLen = ExeBufLen],
     [ExeFound EXCEPT !.exeLen = ExeBufLen, !.reallocFailAt = 2],
     [ExeFound EXCEPT !.reallocFailAt = 1],
     [ExeFound EXCEPT !.hasSep = FALSE],
     [ExeFound EXCEPT !.mallocOk = FALSE]}

\* The library's state after a call, and the record of the call: its return
\* and the calls it made through pointers.  profile: the host gave init the
\* profile directory and the memory to keep it.
LibDone(name, o, profile) ==
    /\ libs' = o.L.libs
    /\ loads' = o.L.loads
    /\ ptr' = o.L.ptr
    /\ userDir' = o.L.userDir
    /\ heap' = o.L.heap
    /\ libPc' = o.L.pc
    /\ lastLib' = [op |-> name, ret |-> o.ret, calls |-> o.L.calls,
                   profile |-> profile]

Init ==
    /\ libPc = "run"
    /\ \A m \in Modules : loads[m] - ProcessLoads(m) < MaxLoads
    /\ \E loadOk \in LoadOutcomes, symOk \in SymOutcomes :
          LET f == findApiSymbols(Lib, loadOk, symOk)
          IN  \E u \in IF f.userDir = NULLP /\ f.ptr["GetUserProfileDirectoryW"]
                       THEN UserDirInputs ELSE {NoProfile} :
                LET pr == ProfileDir(f, u)
                IN  \E x \in IF f.userDir = NULLP /\ pr.pc = "run" /\ pr.userDir = NULLP
                             THEN ExeInputs ELSE {NoExe} :
                      LibDone("init", __PHYSFS_platformInit(Lib, loadOk, symOk, u, x),
                              u.tokenOk /\ u.smallOk /\ u.profileOk /\ u.mallocOk)
    /\ UNCHANGED fileVars
    /\ UNCHANGED notLibVars

Deinit ==
    /\ libPc = "run"
    /\ LibDone("deinit", __PHYSFS_platformDeinit(Lib), FALSE)
    /\ UNCHANGED fileVars
    /\ UNCHANGED notLibVars

GetUserDir ==
    /\ libPc = "run"
    /\ \E mallocOk \in BOOLEAN :
          LibDone("user_directory", __PHYSFS_platformGetUserDir(Lib, mallocOk),
                  FALSE)
    /\ UNCHANGED fileVars
    /\ UNCHANGED notLibVars

CalcBaseDir ==
    /\ libPc = "run"
    /\ \E argv0HasSep \in BOOLEAN :
          \E x \in IF argv0HasSep THEN {NoExe} ELSE ExeInputs :
             LibDone("base_directory", __PHYSFS_platformCalcBaseDir(Lib, argv0HasSep, x),
                     FALSE)
    /\ UNCHANGED fileVars
    /\ UNCHANGED notLibVars

\* The caller frees a string that user_directory or base_directory returned.
ReleaseString ==
    /\ libPc = "run"
    /\ \E b \in DOMAIN heap \ {userDir} :
          LibDone("release", [L |-> StrFree(Lib, b), ret |-> 0], FALSE)
    /\ UNCHANGED fileVars
    /\ UNCHANGED notLibVars

\* The process starts: nothing loaded by the library, every pointer NULL.
LibInit ==
    /\ libs = [m \in Modules |-> FALSE]
    /\ loads = [m \in Modules |-> ProcessLoads(m)]
    /\ ptr = [e \in Entries |-> FALSE]
    /\ userDir = NULLP
    /\ heap = <<>>
    /\ libPc = "run"
    /\ lastLib = [op |-> "none", ret |-> 0, calls |-> {}, profile |-> FALSE]
    /\ PathIdle
    /\ FileIdle
    /\ DelIdle
    /\ TimeIdle

LibNext ==
    \/ Init
    \/ Deinit
    \/ GetUserDir
    \/ CalcBaseDir
    \/ ReleaseString

LibSpec == LibInit /\ [][LibNext]_vars

\* C13: a pointer that is not NULL was resolved from a module that is
\* loaded now, and no operation calls through a pointer it has not tested.
C13_CapabilityFlags ==
    /\ \A e \in Entries : ptr[e] => loads[ModuleOf(e)] > 0
    /\ libPc = "run" => \A c \in lastLib.calls : c.tested
    /\ last.op = "last_modified" => \A c \in last.calls : c.tested

\* every reference the library took on a module is held by a handle that is
\* not NULL
HandlesHoldLoads ==
    \A m \in Modules : loads[m] - ProcessLoads(m) = IF libs[m] THEN 1 ELSE 0

\* C14, one call: an init that returns 1 leaves userDir set, to the profile
\* directory when the host gave it and to the executable's directory
\* otherwise; while userDir is set no call but deinit changes it or its
\* string, and user_directory returns a new block with the same string; a
\* deinit frees userDir and sets it to NULL, releases every handle and sets
\* it to NULL.
C14_Step ==
    libPc' = "run" =>
        /\ (lastLib'.op = "init" /\ lastLib'.ret = 1) =>
              /\ userDir' \in DOMAIN heap'
              /\ userDir = NULLP =>
                    heap'[userDir'] = IF lastLib'.profile THEN "profile" ELSE "exe"
        /\ (userDir # NULLP /\ lastLib'.op # "deinit") =>
              /\ userDir' = userDir
              /\ heap'[userDir'] = heap[userDir]
        /\ (lastLib'.op = "user_directory" /\ lastLib'.ret # NULLP) =>
              /\ lastLib'.ret \notin DOMAIN heap
              /\ heap'[lastLib'.ret] = heap[userDir]
        /\ lastLib'.op = "deinit" =>
              /\ userDir' = NULLP
              /\ userDir # NULLP => userDir \notin DOMAIN heap'
              /\ \A m \in Modules :
                    /\ ~libs'[m]
                    /\ loads'[m] = IF libs[m] THEN loads[m] - 1 ELSE loads[m]
              /\ HandlesHoldLoads => \A m \in Modules : loads'[m] = ProcessLoads(m)

\* C14: the lifecycle of the process-wide state, over every call.
C14_Lifecycle == [][C14_Step]_vars

\* C14's case: after an init that cached the directory, user_directory has
\* returned a copy of it
C14_Witness ==
    /\ lastLib.op = "user_directory"
    /\ lastLib.ret # NULLP
    /\ userDir # NULLP
    /\ lastLib.ret # userDir
    /\ heap[lastLib.ret] = heap[userDir]

---------------------------------------------------------------------------
(* FileTimeToPhysfsTime.  A FILETIME counts ticks (100 ns on the host) in   *)
(* TimeBits bits (64 on the host); a minute is TicksPerMinute ticks         *)
(* (600000000 on the host, line 1037).                                      *)

TimeBits == 14
TicksPerMinute == 2

TimeRange    == 2 ^ TimeBits
TicksPerHour == 60 * TicksPerMinute
TicksPerDay  == 24 * TicksPerHour

\* The one daylight period of the host's rule, in UTC ticks: the second day.
DstFrom == TicksPerDay
DstTo   == 2 * TicksPerDay
InDst(z, utc) == z.dst /\ utc >= DstFrom /\ utc < DstTo

\* the bias, in minutes, in force at a UTC instant
BiasAt(z, utc) ==
    z.Bias + IF ~z.dst THEN 0
             ELSE IF InDst(z, utc) THEN z.DaylightBias ELSE z.StandardBias

\* GetTimeZoneInformation(&tzi): the regime in force now
GetTimeZoneInformation(z, clock, ok) ==
    IF ~ok THEN "TIME_ZONE_ID_INVALID"
    ELSE IF ~z.dst THEN "TIME_ZONE_ID_UNKNOWN"
    ELSE IF InDst(z, clock) THEN "TIME_ZONE_ID_DAYLIGHT"
    ELSE "TIME_ZONE_ID_STANDARD"

\* FileTimeToSystemTime(): calendar fields; it refuses a time whose top bit
\* is set
FileTimeToSystemTime(ticks) ==
    IF ticks >= TimeRange \div 2
    THEN [ok |-> FALSE]
    ELSE [ok |-> TRUE,
          wDay    |-> ticks \div TicksPerDay,
          wHour   |-> (ticks % TicksPerDay) \div TicksPerHour,
          wMinute |-> (ticks % TicksPerHour) \div TicksPerMinute,
          wSecond |-> ticks % TicksPerMinute]

SystemTimeToTicks(s) ==
    s.wDay * TicksPerDay + s.wHour * TicksPerHour
        + s.wMinute * TicksPerMinute + s.wSecond

\* SystemTimeToTzSpecificLocalTime(&tzi, &utc, &local): the bias in force at
\* the time converted; unsupported on some hosts
SystemTimeToTzSpecificLocalTime(z, utc, supported) ==
    LET u == SystemTimeToTicks(utc)
        l == u - BiasAt(z, u) * TicksPerMinute
    IN  IF ~supported \/ l < 0 THEN [ok |-> FALSE] ELSE FileTimeToSystemTime(l)

\* mktime() with tm_isdst = -1: the local calendar fields back to a count
\* from the epoch, under the same rule; -1 when it cannot be represented
mktime(z, tm) ==
    LET l   == SystemTimeToTicks(tm)
        std == l + (z.Bias + IF z.dst THEN z.StandardBias ELSE 0) * TicksPerMinute
        utc == IF InDst(z, std)
               THEN l + (z.Bias + z.DaylightBias) * TicksPerMinute
               ELSE std
    IN  IF utc < 0 THEN -1 ELSE utc

\* lines 1004-1047: the local time by hand
ManualLocalTime(z, tzid, ticks) ==
    LET Bias == z.Bias + (IF tzid = "TIME_ZONE_ID_STANDARD" THEN z.StandardBias
                          ELSE IF tzid = "TIME_ZONE_ID_DAYLIGHT" THEN z.DaylightBias
                          ELSE 0)
    IN  FileTimeToSystemTime((ticks - Bias * TicksPerMinute) % TimeRange)

\* lines 989-1064.  local: the fields given to mktime.
FileTimeToPhysfsTime(ticks, z, clock, tzOk, supported) ==
    LET st_utc == FileTimeToSystemTime(ticks)
        tzid   == GetTimeZoneInformation(z, clock, tzOk)
    IN  IF ~st_utc.ok \/ tzid = "TIME_ZONE_ID_INVALID"
        THEN [ret |-> -1, local |-> [ok |-> FALSE]]
        ELSE LET direct == SystemTimeToTzSpecificLocalTime(z, st_utc, supported)
                 st_localtz == IF direct.ok THEN direct
                               ELSE ManualLocalTime(z, tzid, ticks)
             IN  IF ~st_localtz.ok
                 THEN [ret |-> -1, local |-> st_localtz]
                 ELSE [ret |-> mktime(z, st_localtz), local |-> st_localtz]

\* the file times, time zones and clock readings tried
FileTimes ==
    {0, 61 * TicksPerMinute, DstFrom + 12 * TicksPerHour, DstTo + 12 * TicksPerHour,
     TimeRange \div 2 - 1, TimeRange \div 2, TimeRange - 1}
Zones ==
    [Bias : {-60, 0, 300}, StandardBias : {0}, DaylightBias : {-60}, dst : BOOLEAN]
Clocks == {0, DstFrom + TicksPerHour, DstTo + TicksPerHour}

ConvertFileTime ==
    /\ \E tzOk \in BOOLEAN :
          LET o == FileTimeToPhysfsTime(ft, tzi, now, tzOk, hasTzApi)
          IN  timeRet' = [op |-> "convert", tzOk |-> tzOk, ret |-> o.ret,
                          local |-> o.local]
    /\ UNCHANGED <<ft, tzi, now, hasTzApi>>
    /\ UNCHANGED notTimeVars

\* The host's clock moves on; the next file is looked at.
ClockAdvance ==
    /\ \E c \in Clocks : c > now /\ now' = c
    /\ ft' \in FileTimes
    /\ timeRet' = [op |-> "none"]
    /\ UNCHANGED <<tzi, hasTzApi>>
    /\ UNCHANGED notTimeVars

TimeInit ==
    /\ ft \in FileTimes
    /\ tzi \in Zones
    /\ now = Min(Clocks)
    /\ hasTzApi \in BOOLEAN
    /\ timeRet = [op |-> "none"]
    /\ PathIdle
    /\ FileIdle
    /\ DelIdle
    /\ LibReady

TimeNext ==
    \/ ConvertFileTime
    \/ ClockAdvance

TimeSpec == TimeInit /\ [][TimeNext]_vars

\* C15: for every file time and every time-zone rule the manual bias
\* arithmetic gives the local calendar fields the host's direct conversion
\* gives, and so the same value is returned on both paths.
C15_FallbackAgrees ==
    (timeRet.op = "convert" /\ timeRet.tzOk) =>
        LET other == FileTimeToPhysfsTime(ft, tzi, now, TRUE, ~hasTzApi)
        IN  /\ timeRet.local = other.local
            /\ timeRet.ret = other.ret

=============================================================================
